---- MODULE Spec2Model ----
(***************************************************************************)
(* Model of AuthenticationManager                                          *)
(* (src/src/services/authentication/auth_manager.py).                      *)
(*                                                                         *)
(* The manager keeps one dict, authenticated_sessions, from a session id   *)
(* to the pair (account_number, last_activity).  Every method is modelled  *)
(* by an operator that computes, as the code does, the method's result and *)
(* the dict it leaves behind, and by an action that calls it.  The clock   *)
(* read by time.time() is the variable now; it is advanced by Tick.        *)
(***************************************************************************)
EXTENDS Integers, Sequences, FiniteSets, TLC

VARIABLES
    authenticated_sessions, \* the dict, as the sequence of its items in insertion order
    now,                    \* the value time.time() returns (whole seconds)
    last,                   \* the last step taken: the call, its arguments, its result
    everAuthenticated,      \* history: the session ids passed to authenticate_session
    removedBy,              \* history: the call that removed the session's latest record
    lastTouch,              \* history: time of the latest authenticate/update that wrote the record
    boundAccount,           \* history: account of the authenticate_session behind the record
    refreshedFrom,          \* history: last_activity replaced by the latest in-window update
    insertedOrder,          \* history: the ids holding a record, in the order they got it
    authTime,               \* history: time of the authenticate_session behind the record
    auditAuthTime,          \* whether authTime is recorded in this specification
    conversation,           \* the message list handed to get_cached_pin_from_conversation
    pin_result,             \* what get_cached_pin_from_conversation did with it
    cleaner,                \* the thread inside cleanup_expired_sessions: its position and locals
    mutex,                  \* whether the host runs every call under one lock
    lostFresh               \* history: ids whose record was deleted by cleanup at an age within the timeout

history == <<everAuthenticated, removedBy, lastTouch, boundAccount, refreshedFrom,
            insertedOrder, authTime, auditAuthTime>>

sessionVars == <<authenticated_sessions, now, last, history>>

pinVars == <<conversation, pin_result>>

threadVars == <<cleaner, mutex, lostFresh>>

vars == <<sessionVars, pinVars, threadVars>>

-----------------------------------------------------------------------------
(* Bounds and input sets *)

MaxTime == 1802

MaxMessages == 2

MaxToolCalls == 2

ClockSteps == {450, 451}

SessionIds == {"s1", "s2"}

Accounts == {"ACC1", "ACC2"}

None == "None"

KeyError == "KeyError"

SESSION_TIMEOUT == 15 * 60

-----------------------------------------------------------------------------
(* Python dict: items in insertion order, one item per key *)

Item(session_id, account_number, last_activity) ==
    [session_id |-> session_id, account_number |-> account_number,
     last_activity |-> last_activity]

DictKeys(d) == {d[i].session_id : i \in 1..Len(d)}

DictHas(d, k) == \E i \in 1..Len(d) : d[i].session_id = k

DictIndex(d, k) == CHOOSE i \in 1..Len(d) : d[i].session_id = k

\* d[k]: the item, or KeyError when k is no key of d
DictGet(d, k) == IF DictHas(d, k) THEN d[DictIndex(d, k)] ELSE KeyError

\* variant: assigning to an existing key moves it to the end
DictSet_moves_to_end(d, k, account_number, last_activity) ==
    Append(SelectSeq(d, LAMBDA it : it.session_id # k),
           [session_id |-> k, account_number |-> account_number,
            last_activity |-> last_activity])

\* d[k] = v: an existing key keeps its position, a new key goes to the end
DictSet(d, k, account_number, last_activity) ==
    IF DictHas(d, k)
    THEN [d EXCEPT ![DictIndex(d, k)] = Item(k, account_number, last_activity)]
    ELSE Append(d, Item(k, account_number, last_activity))

\* del d[k]
DictDel(d, k) == SelectSeq(d, LAMBDA it : it.session_id # k)

-----------------------------------------------------------------------------
(* The methods: each yields [sessions |-> the dict afterwards, ret |-> result] *)

Outcome(sessions, ret) == [sessions |-> sessions, ret |-> ret]

\* variant: an existing record is kept (dict.setdefault)
authenticate_session_setdefault(sessions, t, session_id, account_number) ==
    IF DictHas(sessions, session_id)
    THEN Outcome(sessions, None)
    ELSE Outcome(DictSet(sessions, session_id, account_number, t), None)

\* variant: the dict is rebuilt with the new record alone
authenticate_session_replaces_all(sessions, t, session_id, account_number) ==
    Outcome(<<Item(session_id, account_number, t)>>, None)

authenticate_session(sessions, t, session_id, account_number) ==
    Outcome(DictSet(sessions, session_id, account_number, t), None)

\* variant: an expired record yields no account
get_authenticated_account_live_only(sessions, session_id) ==
    IF DictHas(sessions, session_id)
       /\ now - DictGet(sessions, session_id).last_activity <= SESSION_TIMEOUT
    THEN Outcome(sessions, DictGet(sessions, session_id).account_number)
    ELSE Outcome(sessions, None)

get_authenticated_account(sessions, session_id) ==
    IF DictHas(sessions, session_id)
    THEN Outcome(sessions, DictGet(sessions, session_id).account_number)
    ELSE Outcome(sessions, None)

\* variant: the comparison is strict
is_authenticated_strict(sessions, t, session_id) ==
    IF ~DictHas(sessions, session_id)
    THEN Outcome(sessions, FALSE)
    ELSE Outcome(sessions,
                 (t - DictGet(sessions, session_id).last_activity) < SESSION_TIMEOUT)

\* variant: an expired record is deleted when the query meets it
is_authenticated_evicts(sessions, t, session_id) ==
    IF ~DictHas(sessions, session_id)
    THEN Outcome(sessions, FALSE)
    ELSE IF (t - DictGet(sessions, session_id).last_activity) <= SESSION_TIMEOUT
    THEN Outcome(sessions, TRUE)
    ELSE Outcome(DictDel(sessions, session_id), FALSE)

is_authenticated(sessions, t, session_id) ==
    IF ~DictHas(sessions, session_id)
    THEN Outcome(sessions, FALSE)
    ELSE Outcome(sessions,
                 (t - DictGet(sessions, session_id).last_activity) <= SESSION_TIMEOUT)

\* variant: no membership test, a missing record is created with no account
update_session_activity_unguarded(sessions, t, session_id) ==
    Outcome(DictSet(sessions, session_id,
                    IF DictHas(sessions, session_id)
                    THEN DictGet(sessions, session_id).account_number ELSE None,
                    t), None)

\* variant: the record is written back with its old timestamp
update_session_activity_keeps_time(sessions, t, session_id) ==
    IF DictHas(sessions, session_id)
    THEN Outcome(DictSet(sessions, session_id,
                         DictGet(sessions, session_id).account_number,
                         DictGet(sessions, session_id).last_activity), None)
    ELSE Outcome(sessions, None)

\* variant: every record is stamped, not only the one of session_id
update_session_activity_touches_all(sessions, t, session_id) ==
    IF DictHas(sessions, session_id)
    THEN Outcome([i \in 1..Len(sessions) |->
                    Item(sessions[i].session_id, sessions[i].account_number, t)], None)
    ELSE Outcome(sessions, None)

\* variant: only a record still within its window is refreshed
update_session_activity_live_only(sessions, t, session_id) ==
    IF DictHas(sessions, session_id)
       /\ t - DictGet(sessions, session_id).last_activity <= SESSION_TIMEOUT
    THEN Outcome(DictSet(sessions, session_id,
                         DictGet(sessions, session_id).account_number, t), None)
    ELSE Outcome(sessions, None)

update_session_activity(sessions, t, session_id) ==
    IF DictHas(sessions, session_id)
    THEN Outcome(DictSet(sessions, session_id,
                         DictGet(sessions, session_id).account_number, t), None)
    ELSE Outcome(sessions, None)

\* variant: a record aged exactly the timeout is collected too
ExpiredScan_inclusive(sessions, current_time) ==
    LET stale == SelectSeq(sessions,
                    LAMBDA it : current_time - it.last_activity >= SESSION_TIMEOUT)
    IN  [i \in 1..Len(stale) |-> stale[i].session_id]

\* the first loop: the ids whose age exceeds the timeout, in iteration order
ExpiredScan(sessions, current_time) ==
    LET stale == SelectSeq(sessions,
                    LAMBDA it : current_time - it.last_activity > SESSION_TIMEOUT)
    IN  [i \in 1..Len(stale) |-> stale[i].session_id]

RECURSIVE RemoveAll(_, _)
\* the second loop: delete each collected id that is still a key
RemoveAll(sessions, ids) ==
    IF ids = <<>> THEN sessions
    ELSE RemoveAll(IF DictHas(sessions, Head(ids))
                   THEN DictDel(sessions, Head(ids)) ELSE sessions,
                   Tail(ids))

cleanup_expired_sessions(sessions, t) ==
    LET expired_sessions == ExpiredScan(sessions, t)
    IN  Outcome(RemoveAll(sessions, expired_sessions), expired_sessions)

\* variant: True is returned whether or not a record was there
end_session_always_true(sessions, session_id) ==
    Outcome(DictDel(sessions, session_id), TRUE)

\* variant: the whole dict is cleared
end_session_clears_all(sessions, session_id) ==
    IF DictHas(sessions, session_id)
    THEN Outcome(<<>>, TRUE)
    ELSE Outcome(sessions, FALSE)

end_session(sessions, session_id) ==
    IF DictHas(sessions, session_id)
    THEN Outcome(DictDel(sessions, session_id), TRUE)
    ELSE Outcome(sessions, FALSE)

-----------------------------------------------------------------------------
(* Python values, as json.loads builds them and as the method returns them.  *)
(* A str is the sequence of its characters.                                  *)

PyNone == [type |-> "NoneType"]

PyBool(b) == [type |-> "bool", value |-> b]

PyInt(n) == [type |-> "int", value |-> n]

PyStr(chars) == [type |-> "str", value |-> chars]

PyList(items) == [type |-> "list", value |-> items]

\* members: the key/value pairs in the order parsed
PyDict(members) == [type |-> "dict", value |-> members]

\* bool(v), as "if pin:" takes it
Truthy(v) ==
    CASE v.type = "NoneType" -> FALSE
      [] v.type = "bool" -> v.value
      [] v.type = "int" -> v.value # 0
      [] OTHER -> Len(v.value) > 0

\* dict.get(key): the value of the last member with that key, else None
dict_get(d, key) ==
    LET hits == {i \in 1..Len(d.value) : d.value[i].key = key}
    IN  IF hits = {} THEN PyNone
        ELSE d.value[CHOOSE i \in hits : \A j \in hits : j <= i].value

DecimalDigits == {"0", "1", "2", "3", "4", "5", "6", "7", "8", "9"}

\* characters str.isdigit accepts besides 0-9; "sup2" stands for U+00B2
OtherDigits == {"sup2"}

\* variant: only 0-9 count (str.isdecimal restricted to ASCII)
isdigit_ascii(chars) ==
    Len(chars) > 0 /\ \A i \in 1..Len(chars) : chars[i] \in DecimalDigits

\* str.isdigit: non-empty and every character has the Unicode digit property
isdigit(chars) ==
    Len(chars) > 0 /\ \A i \in 1..Len(chars) : chars[i] \in DecimalDigits \cup OtherDigits

-----------------------------------------------------------------------------
(* json.loads on the subset: null, true, false, integers, strings without     *)
(* escapes, arrays, objects; blanks between tokens.                           *)

JsonBlank == {" "}

Quote == "\""

JSONDecodeError == [ok |-> FALSE]

Parsed(v, next) == [ok |-> TRUE, value |-> v, next |-> next]

RECURSIVE SkipBlanks(_, _)
SkipBlanks(s, i) ==
    IF i <= Len(s) /\ s[i] \in JsonBlank THEN SkipBlanks(s, i + 1) ELSE i

StartsWith(s, i, lit) ==
    i + Len(lit) - 1 <= Len(s) /\ \A k \in 1..Len(lit) : s[i + k - 1] = lit[k]

RECURSIVE StringEnd(_, _)
\* the index of the closing quote at or after i, 0 when the string never ends
StringEnd(s, i) ==
    IF i > Len(s) THEN 0 ELSE IF s[i] = Quote THEN i ELSE StringEnd(s, i + 1)

RECURSIVE DigitsEnd(_, _)
DigitsEnd(s, i) ==
    IF i <= Len(s) /\ s[i] \in DecimalDigits THEN DigitsEnd(s, i + 1) ELSE i

DigitValue(c) ==
    CASE c = "0" -> 0 [] c = "1" -> 1 [] c = "2" -> 2 [] c = "3" -> 3 [] c = "4" -> 4
      [] c = "5" -> 5 [] c = "6" -> 6 [] c = "7" -> 7 [] c = "8" -> 8 [] c = "9" -> 9

RECURSIVE NumberValue(_, _, _)
NumberValue(s, i, j) ==
    IF j < i THEN 0 ELSE 10 * NumberValue(s, i, j - 1) + DigitValue(s[j])

\* -?(0|[1-9][0-9]*)
ParseNumber(s, i) ==
    LET neg == s[i] = "-"
        d == IF neg THEN i + 1 ELSE i
        e == IF d <= Len(s) /\ s[d] = "0" THEN d + 1 ELSE DigitsEnd(s, d)
    IN  IF e = d THEN JSONDecodeError
        ELSE Parsed(PyInt(IF neg THEN 0 - NumberValue(s, d, e - 1)
                          ELSE NumberValue(s, d, e - 1)), e)

RECURSIVE ParseValue(_, _)
RECURSIVE ParseArrayRest(_, _, _)
RECURSIVE ParseObjectRest(_, _, _)

\* a value starting at i, which is past the blanks
ParseValue(s, i) ==
    IF i > Len(s) THEN JSONDecodeError
    ELSE IF StartsWith(s, i, <<"n", "u", "l", "l">>) THEN Parsed(PyNone, i + 4)
    ELSE IF StartsWith(s, i, <<"t", "r", "u", "e">>) THEN Parsed(PyBool(TRUE), i + 4)
    ELSE IF StartsWith(s, i, <<"f", "a", "l", "s", "e">>) THEN Parsed(PyBool(FALSE), i + 5)
    ELSE IF s[i] = Quote
    THEN LET e == StringEnd(s, i + 1)
         IN  IF e = 0 THEN JSONDecodeError
             ELSE Parsed(PyStr(SubSeq(s, i + 1, e - 1)), e + 1)
    ELSE IF s[i] \in DecimalDigits \cup {"-"} THEN ParseNumber(s, i)
    ELSE IF s[i] = "["
    THEN LET j == SkipBlanks(s, i + 1)
         IN  IF j <= Len(s) /\ s[j] = "]" THEN Parsed(PyList(<<>>), j + 1)
             ELSE ParseArrayRest(s, j, <<>>)
    ELSE IF s[i] = "{"
    THEN LET j == SkipBlanks(s, i + 1)
         IN  IF j <= Len(s) /\ s[j] = "}" THEN Parsed(PyDict(<<>>), j + 1)
             ELSE ParseObjectRest(s, j, <<>>)
    ELSE JSONDecodeError

\* the elements of an array from the one starting at i
ParseArrayRest(s, i, items) ==
    LET v == ParseValue(s, i)
    IN  IF ~v.ok THEN JSONDecodeError
        ELSE LET j == SkipBlanks(s, v.next)
                 got == Append(items, v.value)
             IN  IF j > Len(s) THEN JSONDecodeError
                 ELSE IF s[j] = "]" THEN Parsed(PyList(got), j + 1)
                 ELSE IF s[j] = "," THEN ParseArrayRest(s, SkipBlanks(s, j + 1), got)
                 ELSE JSONDecodeError

\* the members of an object from the key starting at i
ParseObjectRest(s, i, members) ==
    IF i > Len(s) \/ s[i] # Quote THEN JSONDecodeError
    ELSE LET e == StringEnd(s, i + 1)
         IN  IF e = 0 THEN JSONDecodeError
             ELSE LET c == SkipBlanks(s, e + 1)
                  IN  IF c > Len(s) \/ s[c] # ":" THEN JSONDecodeError
                      ELSE LET v == ParseValue(s, SkipBlanks(s, c + 1))
                           IN  IF ~v.ok THEN JSONDecodeError
                               ELSE LET j == SkipBlanks(s, v.next)
                                        got == Append(members,
                                                 [key |-> SubSeq(s, i + 1, e - 1),
                                                  value |-> v.value])
                                    IN  IF j > Len(s) THEN JSONDecodeError
                                        ELSE IF s[j] = "}" THEN Parsed(PyDict(got), j + 1)
                                        ELSE IF s[j] = ","
                                        THEN ParseObjectRest(s, SkipBlanks(s, j + 1), got)
                                        ELSE JSONDecodeError

\* json.loads(s): the value, or JSONDecodeError (also when text follows the value)
json_loads(s) ==
    LET v == ParseValue(s, SkipBlanks(s, 1))
    IN  IF ~v.ok THEN JSONDecodeError
        ELSE IF SkipBlanks(s, v.next) <= Len(s) THEN JSONDecodeError
        ELSE [ok |-> TRUE, value |-> v.value]

-----------------------------------------------------------------------------
(* get_cached_pin_from_conversation *)

Return(v) == [status |-> "return", value |-> v]

Raise(exception) == [status |-> "raise", value |-> [type |-> exception]]

\* the inner loop ran off its end: the outer loop takes the next message
Fallthrough == [status |-> "next message", value |-> PyNone]

NotCalled == [status |-> "not called", value |-> PyNone]

RECURSIVE ScanToolCalls(_, _)
\* for tool_call in msg["tool_calls"], from the j-th on
ScanToolCalls(tool_calls, j) ==
    IF j > Len(tool_calls) THEN Fallthrough
    ELSE IF tool_calls[j].function.name = "validate_pin"
    THEN LET args == json_loads(tool_calls[j].function.arguments)
         IN  IF ~args.ok THEN ScanToolCalls(tool_calls, j + 1)
             ELSE IF args.value.type # "dict" THEN Raise("AttributeError")
             ELSE LET pin == dict_get(args.value, <<"p", "i", "n">>)
                  IN  IF Truthy(pin) THEN Return(pin)
                      ELSE ScanToolCalls(tool_calls, j + 1)
    ELSE ScanToolCalls(tool_calls, j + 1)

RECURSIVE ScanMessages(_, _)
\* for msg in reversed(conversation), from the i-th message down
ScanMessages(conv, i) ==
    IF i = 0 THEN Return(PyNone)
    ELSE LET msg == conv[i]
         IN  IF msg.role = "user" /\ Len(msg.content) = 4 /\ isdigit(msg.content)
             THEN Return(PyStr(msg.content))
             ELSE IF msg.role = "assistant" /\ "tool_calls" \in DOMAIN msg
             THEN LET r == ScanToolCalls(msg.tool_calls, 1)
                  IN  IF r.status = "next message" THEN ScanMessages(conv, i - 1) ELSE r
             ELSE ScanMessages(conv, i - 1)

get_cached_pin_from_conversation(conv) == ScanMessages(conv, Len(conv))

-----------------------------------------------------------------------------
(* The state machine *)

\* what a call finds for session_id before it acts
Prior(sessions, t, session_id) ==
    IF ~DictHas(sessions, session_id)
    THEN [state |-> "absent", account_number |-> None]
    ELSE [state |-> IF t - DictGet(sessions, session_id).last_activity > SESSION_TIMEOUT
                    THEN "expired" ELSE "live",
          account_number |-> DictGet(sessions, session_id).account_number]

NoPrior == [state |-> "absent", account_number |-> None]

Step(op, session_id, account_number, ret, prior) ==
    [op |-> op, session_id |-> session_id, account_number |-> account_number,
     ret |-> ret, prior |-> prior]

\* cleanup_expired_sessions is not running
Idle == [pc |-> "idle", current_time |-> -1, expired_sessions |-> <<>>, i |-> 0]

InitCommon ==
    /\ authenticated_sessions = <<>>
    /\ now = 0
    /\ last = Step("init", None, None, None, NoPrior)
    /\ everAuthenticated = {}
    /\ removedBy = [s \in SessionIds |-> None]
    /\ lastTouch = [s \in SessionIds |-> -1]
    /\ boundAccount = [s \in SessionIds |-> None]
    /\ refreshedFrom = [s \in SessionIds |-> -1]
    /\ insertedOrder = <<>>
    /\ authTime = [s \in SessionIds |-> -1]
    /\ conversation = <<>>
    /\ pin_result = NotCalled
    /\ cleaner = Idle
    /\ lostFresh = {}

\* one caller: every call runs to its end before the next starts
Init ==
    /\ InitCommon
    /\ auditAuthTime = FALSE
    /\ mutex = TRUE

\* time.time() moves on between two calls
Tick(d) ==
    /\ now + d <= MaxTime
    /\ now' = now + d
    /\ last' = Step("tick", None, None, None, NoPrior)
    /\ UNCHANGED <<authenticated_sessions, history, pinVars, threadVars>>

\* the ids whose record a call removed
Gone(before, after) == DictKeys(before) \ DictKeys(after)

Call_authenticate_session(s, a) ==
    LET r == authenticate_session(authenticated_sessions, now, s, a)
    IN  /\ authenticated_sessions' = r.sessions
        /\ last' = Step("authenticate_session", s, a, r.ret,
                        Prior(authenticated_sessions, now, s))
        /\ everAuthenticated' = everAuthenticated \cup {s}
        /\ removedBy' = [removedBy EXCEPT ![s] = None]
        /\ lastTouch' = [lastTouch EXCEPT ![s] = now]
        /\ boundAccount' = [boundAccount EXCEPT ![s] = a]
        /\ refreshedFrom' = [refreshedFrom EXCEPT ![s] = -1]
        /\ insertedOrder' = IF lastTouch[s] >= 0 THEN insertedOrder
                            ELSE Append(insertedOrder, s)
        /\ authTime' = IF auditAuthTime THEN [authTime EXCEPT ![s] = now] ELSE authTime
        /\ UNCHANGED <<now, auditAuthTime, pinVars, threadVars>>

Call_get_authenticated_account(s) ==
    LET r == get_authenticated_account(authenticated_sessions, s)
    IN  /\ authenticated_sessions' = r.sessions
        /\ last' = Step("get_authenticated_account", s, None, r.ret,
                        Prior(authenticated_sessions, now, s))
        /\ UNCHANGED <<now, history, pinVars, threadVars>>

Call_is_authenticated(s) ==
    LET r == is_authenticated(authenticated_sessions, now, s)
    IN  /\ authenticated_sessions' = r.sessions
        /\ last' = Step("is_authenticated", s, None, r.ret,
                        Prior(authenticated_sessions, now, s))
        /\ UNCHANGED <<now, history, pinVars, threadVars>>

Call_update_session_activity(s) ==
    LET r == update_session_activity(authenticated_sessions, now, s)
        prior == Prior(authenticated_sessions, now, s)
    IN  /\ authenticated_sessions' = r.sessions
        /\ last' = Step("update_session_activity", s, None, r.ret, prior)
        /\ lastTouch' = [lastTouch EXCEPT ![s] =
                            IF prior.state = "absent" THEN @ ELSE now]
        /\ refreshedFrom' = [refreshedFrom EXCEPT ![s] =
                            IF prior.state = "live" THEN lastTouch[s] ELSE -1]
        /\ UNCHANGED <<now, everAuthenticated, removedBy, boundAccount, insertedOrder,
                       authTime, auditAuthTime, pinVars, threadVars>>

Call_cleanup_expired_sessions ==
    LET r == cleanup_expired_sessions(authenticated_sessions, now)
        gone == Gone(authenticated_sessions, r.sessions)
    IN  /\ authenticated_sessions' = r.sessions
        /\ last' = Step("cleanup_expired_sessions", None, None, r.ret, NoPrior)
        /\ removedBy' = [s \in SessionIds |->
                IF s \in gone THEN "cleanup_expired_sessions" ELSE removedBy[s]]
        /\ lastTouch' = [s \in SessionIds |-> IF s \in gone THEN -1 ELSE lastTouch[s]]
        /\ refreshedFrom' = [s \in SessionIds |->
                IF s \in gone THEN -1 ELSE refreshedFrom[s]]
        /\ boundAccount' = [s \in SessionIds |->
                IF s \in gone THEN None ELSE boundAccount[s]]
        /\ insertedOrder' = SelectSeq(insertedOrder, LAMBDA s : s \notin gone)
        /\ authTime' = [s \in SessionIds |-> IF s \in gone THEN -1 ELSE authTime[s]]
        /\ UNCHANGED <<now, everAuthenticated, auditAuthTime, pinVars, threadVars>>

Call_end_session(s) ==
    LET r == end_session(authenticated_sessions, s)
        gone == Gone(authenticated_sessions, r.sessions)
    IN  /\ authenticated_sessions' = r.sessions
        /\ last' = Step("end_session", s, None, r.ret,
                        Prior(authenticated_sessions, now, s))
        /\ removedBy' = [t \in SessionIds |->
                IF t \in gone THEN "end_session" ELSE removedBy[t]]
        /\ lastTouch' = [t \in SessionIds |-> IF t \in gone THEN -1 ELSE lastTouch[t]]
        /\ refreshedFrom' = [t \in SessionIds |->
                IF t \in gone THEN -1 ELSE refreshedFrom[t]]
        /\ boundAccount' = [t \in SessionIds |->
                IF t \in gone THEN None ELSE boundAccount[t]]
        /\ insertedOrder' = SelectSeq(insertedOrder, LAMBDA t : t \notin gone)
        /\ authTime' = [t \in SessionIds |-> IF t \in gone THEN -1 ELSE authTime[t]]
        /\ UNCHANGED <<now, everAuthenticated, auditAuthTime, pinVars, threadVars>>

Next ==
    \/ \E d \in ClockSteps : Tick(d)
    \/ \E s \in SessionIds, a \in Accounts : Call_authenticate_session(s, a)
    \/ \E s \in SessionIds : Call_get_authenticated_account(s)
    \/ \E s \in SessionIds : Call_is_authenticated(s)
    \/ \E s \in SessionIds : Call_update_session_activity(s)
    \/ Call_cleanup_expired_sessions
    \/ \E s \in SessionIds : Call_end_session(s)

Spec == Init /\ [][Next]_vars

-----------------------------------------------------------------------------
(* Two threads on one manager: one runs cleanup_expired_sessions, whose two    *)
(* loops are separate steps, the other authenticates and refreshes sessions.  *)
(* With mutex the host holds a lock around every call, so the other thread    *)
(* waits while cleanup_expired_sessions is running; without it the calls      *)
(* interleave between the steps.                                              *)

InitThreads ==
    /\ InitCommon
    /\ auditAuthTime = FALSE
    /\ mutex \in BOOLEAN

\* the account the other thread authenticates its sessions for
ThreadAccount == "ACC1"

\* the other thread may run a call now
MayCall == mutex => cleaner.pc = "idle"

Other_authenticate_session(s, a) == MayCall /\ Call_authenticate_session(s, a)

Other_update_session_activity(s) == MayCall /\ Call_update_session_activity(s)

\* current_time = time.time() and the first loop, over list(items())
CleanupScan ==
    /\ cleaner.pc = "idle"
    /\ cleaner' = [pc |-> "removing", current_time |-> now,
                   expired_sessions |-> ExpiredScan(authenticated_sessions, now),
                   i |-> 1]
    /\ UNCHANGED <<sessionVars, pinVars, mutex, lostFresh>>

\* one round of the second loop: the membership test and the del
CleanupRemove ==
    /\ cleaner.pc = "removing"
    /\ cleaner.i <= Len(cleaner.expired_sessions)
    /\ LET s == cleaner.expired_sessions[cleaner.i]
           after == RemoveAll(authenticated_sessions, <<s>>)
           gone == Gone(authenticated_sessions, after)
       IN  /\ authenticated_sessions' = after
           /\ lostFresh' = lostFresh \cup
                 {t \in gone : now - DictGet(authenticated_sessions, t).last_activity
                                   <= SESSION_TIMEOUT}
           /\ removedBy' = [t \in SessionIds |->
                 IF t \in gone THEN "cleanup_expired_sessions" ELSE removedBy[t]]
           /\ lastTouch' = [t \in SessionIds |-> IF t \in gone THEN -1 ELSE lastTouch[t]]
           /\ refreshedFrom' = [t \in SessionIds |->
                 IF t \in gone THEN -1 ELSE refreshedFrom[t]]
           /\ boundAccount' = [t \in SessionIds |->
                 IF t \in gone THEN None ELSE boundAccount[t]]
           /\ insertedOrder' = SelectSeq(insertedOrder, LAMBDA t : t \notin gone)
           /\ authTime' = [t \in SessionIds |-> IF t \in gone THEN -1 ELSE authTime[t]]
    /\ cleaner' = [cleaner EXCEPT !.i = @ + 1]
    /\ UNCHANGED <<now, last, everAuthenticated, auditAuthTime, pinVars, mutex>>

\* return expired_sessions
CleanupReturn ==
    /\ cleaner.pc = "removing"
    /\ cleaner.i > Len(cleaner.expired_sessions)
    /\ last' = Step("cleanup_expired_sessions", None, None,
                    cleaner.expired_sessions, NoPrior)
    /\ cleaner' = Idle
    /\ UNCHANGED <<authenticated_sessions, now, history, pinVars, mutex, lostFresh>>

NextThreads ==
    \/ \E d \in ClockSteps : Tick(d)
    \/ \E s \in SessionIds : Other_authenticate_session(s, ThreadAccount)
    \/ \E s \in SessionIds : Other_update_session_activity(s)
    \/ CleanupScan
    \/ CleanupRemove
    \/ CleanupReturn

SpecThreads == InitThreads /\ [][NextThreads]_vars

-----------------------------------------------------------------------------
(* One caller again, with the time of the authenticate_session behind each    *)
(* record kept beside the store. The account plays no part in a timestamp,    *)
(* so the sessions are all authenticated for one account.                     *)

InitAudit ==
    /\ InitCommon
    /\ auditAuthTime = TRUE
    /\ mutex = TRUE

NextAudit ==
    \/ \E d \in ClockSteps : Tick(d)
    \/ \E s \in SessionIds : Call_authenticate_session(s, ThreadAccount)
    \/ \E s \in SessionIds : Call_get_authenticated_account(s)
    \/ \E s \in SessionIds : Call_is_authenticated(s)
    \/ \E s \in SessionIds : Call_update_session_activity(s)
    \/ Call_cleanup_expired_sessions
    \/ \E s \in SessionIds : Call_end_session(s)

SpecAudit == InitAudit /\ [][NextAudit]_vars

-----------------------------------------------------------------------------
(* The callers of get_cached_pin_from_conversation: a conversation grows by   *)
(* user and assistant messages, and the method is called on it.               *)

UserContents ==
    { <<"1", "2", "3", "4">>,
      <<"4", "3", "2", "1">>,
      <<"1", "2", "a", "4">>,
      <<"1", "2", "3", "4", "5">>,
      <<"1", "2", "sup2", "4">> }

ToolNames == {"validate_pin", "get_balance"}

\* {"pin":"5678"}
ArgsPin == <<"{", Quote, "p", "i", "n", Quote, ":", Quote, "5", "6", "7", "8", Quote, "}">>

\* {"pin":""}
ArgsEmptyPin == <<"{", Quote, "p", "i", "n", Quote, ":", Quote, Quote, "}">>

\* {}
ArgsNoPin == <<"{", "}">>

\* not-json
ArgsNotJson == <<"n", "o", "t", "-", "j", "s", "o", "n">>

\* 5
ArgsNumber == <<"5">>

\* []
ArgsList == <<"[", "]">>

\* null
ArgsNull == <<"n", "u", "l", "l">>

ToolCalls ==
    {[function |-> [name |-> "validate_pin", arguments |-> a]] :
        a \in {ArgsPin, ArgsEmptyPin, ArgsNoPin, ArgsNotJson, ArgsNumber, ArgsList, ArgsNull}}
    \cup {[function |-> [name |-> "get_balance", arguments |-> ArgsPin]]}

CallsOf(msg) == IF "tool_calls" \in DOMAIN msg THEN Len(msg.tool_calls) ELSE 0

RECURSIVE TotalCalls(_)
TotalCalls(conv) ==
    IF conv = <<>> THEN 0 ELSE CallsOf(Head(conv)) + TotalCalls(Tail(conv))

AddUserMessage(content) ==
    /\ Len(conversation) < MaxMessages
    /\ conversation' = Append(conversation, [role |-> "user", content |-> content])
    /\ pin_result' = NotCalled
    /\ UNCHANGED <<sessionVars, threadVars>>

\* an assistant message without tool calls: no "tool_calls" key
AddAssistantMessage ==
    /\ Len(conversation) < MaxMessages
    /\ conversation' = Append(conversation, [role |-> "assistant", content |-> <<>>])
    /\ pin_result' = NotCalled
    /\ UNCHANGED <<sessionVars, threadVars>>

\* an assistant message that carries the tool call
AddAssistantToolCall(call) ==
    /\ Len(conversation) < MaxMessages
    /\ TotalCalls(conversation) < MaxToolCalls
    /\ conversation' = Append(conversation,
            [role |-> "assistant", content |-> <<>>, tool_calls |-> <<call>>])
    /\ pin_result' = NotCalled
    /\ UNCHANGED <<sessionVars, threadVars>>

\* one more tool call on the latest assistant message
AddToolCall(call) ==
    /\ conversation # <<>>
    /\ "tool_calls" \in DOMAIN conversation[Len(conversation)]
    /\ TotalCalls(conversation) < MaxToolCalls
    /\ conversation' = [conversation EXCEPT ![Len(conversation)].tool_calls =
                            Append(@, call)]
    /\ pin_result' = NotCalled
    /\ UNCHANGED <<sessionVars, threadVars>>

Call_get_cached_pin_from_conversation ==
    /\ pin_result' = get_cached_pin_from_conversation(conversation)
    /\ UNCHANGED <<conversation, sessionVars, threadVars>>

NextPin ==
    \/ \E c \in UserContents : AddUserMessage(c)
    \/ AddAssistantMessage
    \/ \E call \in ToolCalls : AddAssistantToolCall(call)
    \/ \E call \in ToolCalls : AddToolCall(call)
    \/ Call_get_cached_pin_from_conversation

SpecPin == Init /\ [][NextPin]_vars

-----------------------------------------------------------------------------
(* Claims about the session store *)

Present(s) == DictHas(authenticated_sessions, s)

Record(s) == DictGet(authenticated_sessions, s)

IsAuthenticatedNow(s) == is_authenticated(authenticated_sessions, now, s).ret

AccountNow(s) == get_authenticated_account(authenticated_sessions, s).ret

\* C1: a session id never passed to authenticate_session is unauthenticated and
\* has no account, whatever was called before and however far the clock moved;
\* update_session_activity and end_session on it are no-ops with their normal
\* results (None, False) and cleanup_expired_sessions never reports it.
C1_UnknownSessionYieldsNothing ==
    \A s \in SessionIds \ everAuthenticated :
        /\ IsAuthenticatedNow(s) = FALSE
        /\ AccountNow(s) = None
        /\ update_session_activity(authenticated_sessions, now, s)
               = Outcome(authenticated_sessions, None)
        /\ end_session(authenticated_sessions, s)
               = Outcome(authenticated_sessions, FALSE)
        /\ LET ids == cleanup_expired_sessions(authenticated_sessions, now).ret
           IN  \A i \in 1..Len(ids) : ids[i] # s
        /\ (last.session_id = s /\ last.op \in {"is_authenticated", "end_session"})
               => last.ret = FALSE
        /\ (last.session_id = s /\ last.op = "get_authenticated_account")
               => last.ret = None

C1_Witness ==
    /\ last.op = "update_session_activity"
    /\ last.session_id \notin everAuthenticated
    /\ everAuthenticated # {}
    /\ now > SESSION_TIMEOUT
    /\ ~IsAuthenticatedNow(last.session_id)

\* C2: right after authenticate_session(s, a), before the clock moves, the
\* account of s is a and s is authenticated, whatever record s had before;
\* the dict holds one record for s, stamped with the current time.
C2_AuthenticateBindsAccount ==
    last.op = "authenticate_session" =>
        /\ AccountNow(last.session_id) = last.account_number
        /\ IsAuthenticatedNow(last.session_id) = TRUE
        /\ Cardinality({i \in 1..Len(authenticated_sessions) :
               authenticated_sessions[i].session_id = last.session_id}) = 1
        /\ Record(last.session_id).last_activity = now

C2_Witness ==
    /\ last.op = "authenticate_session"
    /\ last.prior.state = "expired"
    /\ last.prior.account_number # last.account_number
    /\ AccountNow(last.session_id) = last.account_number

\* C3: once more than 900 seconds have passed since the last
\* authenticate_session/update_session_activity that wrote the record of s, and
\* the record has not been removed, s is not authenticated but its account is
\* still returned.
C3_LazyExpiry ==
    \A s \in SessionIds :
        (lastTouch[s] >= 0 /\ now - lastTouch[s] > 900) =>
            /\ IsAuthenticatedNow(s) = FALSE
            /\ AccountNow(s) = boundAccount[s]
            /\ Present(s)

C3_Witness ==
    /\ last.op = "get_authenticated_account"
    /\ last.ret \in Accounts
    /\ now - lastTouch[last.session_id] > 900
    /\ ~IsAuthenticatedNow(last.session_id)

\* C4: is_authenticated(s) is true exactly when s has a record and
\* now - last_activity <= 900; at age 900 it is true, at age 901 false.
C4_AuthenticatedIffWithinTimeout ==
    /\ last.op = "is_authenticated" =>
          last.ret = (IF Present(last.session_id)
                      THEN now - Record(last.session_id).last_activity <= 900
                      ELSE FALSE)
    /\ \A s \in SessionIds :
          /\ IsAuthenticatedNow(s) => Present(s)
          /\ Present(s) =>
                /\ now - Record(s).last_activity = 900 => IsAuthenticatedNow(s)
                /\ now - Record(s).last_activity = 901 => ~IsAuthenticatedNow(s)
                /\ IsAuthenticatedNow(s) = (now - Record(s).last_activity <= 900)

C4_Witness ==
    /\ last.op = "is_authenticated"
    /\ last.ret = TRUE
    /\ now - Record(last.session_id).last_activity = 900

\* C5: after update_session_activity(s) at time t1 on a record still within its
\* window, s stays authenticated, for the same account, at every time up to
\* t1 + 900 while the record is there, also past the old last_activity + 900.
C5_UpdateRestartsWindow ==
    \A s \in SessionIds :
        (refreshedFrom[s] >= 0 /\ now <= lastTouch[s] + 900) =>
            /\ IsAuthenticatedNow(s) = TRUE
            /\ AccountNow(s) = boundAccount[s]
            /\ Record(s).last_activity = lastTouch[s]

C5_Witness ==
    /\ last.op = "is_authenticated"
    /\ last.ret = TRUE
    /\ refreshedFrom[last.session_id] >= 0
    /\ now > refreshedFrom[last.session_id] + 900
    /\ AccountNow(last.session_id) = boundAccount[last.session_id]

\* the ids whose record is older than 900 seconds
Stale(sessions, t) ==
    {s \in DictKeys(sessions) : t - DictGet(sessions, s).last_activity > 900}

\* C6: cleanup_expired_sessions returns exactly the ids whose age exceeds 900
\* at the call, each once; each of them is absent afterwards and every other
\* record is kept as it was.
C6_CleanupRemovesExactlyStale ==
    [][last'.op = "cleanup_expired_sessions" =>
        LET stale == Stale(authenticated_sessions, now)
        IN  /\ {last'.ret[i] : i \in 1..Len(last'.ret)} = stale
            /\ Len(last'.ret) = Cardinality(stale)
            /\ \A s \in stale :
                  get_authenticated_account(authenticated_sessions', s).ret = None
            /\ DictKeys(authenticated_sessions')
                  = DictKeys(authenticated_sessions) \ stale
            /\ \A s \in DictKeys(authenticated_sessions) \ stale :
                  DictGet(authenticated_sessions', s) = DictGet(authenticated_sessions, s)
    ]_vars

C6_Witness ==
    /\ last.op = "cleanup_expired_sessions"
    /\ Len(last.ret) = 1
    /\ Len(authenticated_sessions) = 1
    /\ AccountNow(last.ret[1]) = None

\* C7: end_session(s) returns True exactly when s had a record (live or
\* expired), and the record is gone afterwards; it returns True for a session
\* whose authenticate_session was not followed by a removal, False once an
\* end_session has removed it and for a session never authenticated, where it
\* leaves the dict as it was.
C7_EndSessionTrueOnce ==
    [][\A s \in SessionIds : (last'.op = "end_session" /\ last'.session_id = s) =>
        /\ last'.ret = DictHas(authenticated_sessions, s)
        /\ ~DictHas(authenticated_sessions', s)
        /\ DictKeys(authenticated_sessions') = DictKeys(authenticated_sessions) \ {s}
        /\ lastTouch[s] >= 0 => last'.ret = TRUE
        /\ removedBy[s] = "end_session" => last'.ret = FALSE
        /\ s \notin everAuthenticated =>
              (last'.ret = FALSE /\ authenticated_sessions' = authenticated_sessions)
    ]_vars

C7_Witness ==
    /\ last.op = "end_session"
    /\ last.ret = FALSE
    /\ removedBy[last.session_id] = "end_session"

\* C8 as stated: a session id absent from the dict was never passed to
\* authenticate_session or was removed by end_session.
C8_AbsentMeansNeverOrEnded ==
    \A s \in SessionIds :
        ~Present(s) => (s \notin everAuthenticated \/ removedBy[s] = "end_session")

\* C8 as amended: a session id absent from the dict was never passed to
\* authenticate_session, or its record was removed by end_session, or it was
\* removed by cleanup_expired_sessions; a present one was authenticated.
C8_AbsentMeansNeverEndedOrCleaned ==
    \A s \in SessionIds :
        /\ ~Present(s) =>
              \/ s \notin everAuthenticated
              \/ removedBy[s] \in {"end_session", "cleanup_expired_sessions"}
        /\ Present(s) => (s \in everAuthenticated /\ removedBy[s] = None)

C8_Witness ==
    \E s \in SessionIds :
        /\ ~Present(s)
        /\ s \in everAuthenticated
        /\ removedBy[s] = "cleanup_expired_sessions"

\* C11: is_authenticated and get_authenticated_account are pure reads: whatever
\* the store, the session id and the clock, also when the queried record has
\* expired, the store after the call is the store before it.
C11_QueriesLeaveStoreAlone ==
    [][last'.op \in {"is_authenticated", "get_authenticated_account"} =>
        authenticated_sessions' = authenticated_sessions
    ]_vars

C11_Witness ==
    /\ last.op = "is_authenticated"
    /\ last.prior.state = "expired"
    /\ last.ret = FALSE
    /\ Present(last.session_id)
    /\ Record(last.session_id).account_number = last.prior.account_number

\* C12: update_session_activity(s) on a present record sets that record's
\* last_activity to now and changes nothing else (same account, same position,
\* every other record as it was); on an absent s it leaves the store as it is.
C12_UpdateChangesOnlyTimestamp ==
    [][\A s \in SessionIds :
        (last'.op = "update_session_activity" /\ last'.session_id = s) =>
            IF DictHas(authenticated_sessions, s)
            THEN authenticated_sessions' =
                    [authenticated_sessions EXCEPT
                        ![DictIndex(authenticated_sessions, s)] =
                            Item(s, DictGet(authenticated_sessions, s).account_number, now)]
            ELSE authenticated_sessions' = authenticated_sessions
    ]_vars

C12_Witness ==
    /\ last.op = "update_session_activity"
    /\ last.prior.state # "absent"
    /\ Len(authenticated_sessions) = 2
    /\ Record(last.session_id).last_activity = now
    /\ Record(last.session_id).account_number = last.prior.account_number
    /\ \E t \in SessionIds : Present(t) /\ Record(t).last_activity < now

\* C13: cleanup_expired_sessions tests every record against the one clock value
\* of its entry and returns the expired ids in the iteration order of the
\* store: the order in which the present keys were first inserted, which a
\* re-authentication or a refresh does not change and which end_session
\* followed by authenticate_session moves to the end.
C13_CleanupReturnsInsertionOrder ==
    [][last'.op = "cleanup_expired_sessions" =>
        /\ last'.ret = SelectSeq(insertedOrder,
                          LAMBDA s : s \in Stale(authenticated_sessions, now))
        /\ [i \in 1..Len(authenticated_sessions) |->
               authenticated_sessions[i].session_id] = insertedOrder
    ]_vars

C13_Witness ==
    /\ last.op = "cleanup_expired_sessions"
    /\ last.ret = <<"s2", "s1">>
    /\ removedBy["s1"] = "cleanup_expired_sessions"
    /\ authenticated_sessions = <<>>

\* C16: when every call runs under the host's lock, cleanup_expired_sessions
\* never deletes a record whose age is within the timeout; without the lock an
\* authenticate_session or update_session_activity between its two loops makes
\* it delete the freshly written record and report the session as expired.
C16_LockKeepsFreshRecords ==
    mutex => lostFresh = {}

C16_Witness ==
    /\ ~mutex
    /\ last.op = "cleanup_expired_sessions"
    /\ \E i \in 1..Len(last.ret) :
          /\ last.ret[i] \in lostFresh
          /\ ~Present(last.ret[i])
          /\ last.ret[i] \in everAuthenticated

\* C17: update_session_activity does not test expiry: called on a record that
\* is expired but still in the store, it makes the session authenticated again
\* for the same account, with no authenticate_session in between.
C17_UpdateRevivesExpired ==
    (last.op = "update_session_activity" /\ last.prior.state = "expired") =>
        /\ IsAuthenticatedNow(last.session_id) = TRUE
        /\ AccountNow(last.session_id) = last.prior.account_number
        /\ Record(last.session_id).last_activity = now

C17_Witness ==
    /\ last.op = "update_session_activity"
    /\ last.prior.state = "expired"
    /\ IsAuthenticatedNow(last.session_id)
    /\ AccountNow(last.session_id) = boundAccount[last.session_id]

\* C18: at one clock value cleanup_expired_sessions removes a present session
\* exactly when is_authenticated is false for it; right after a cleanup every
\* remaining session is authenticated; a session aged exactly 900 seconds is
\* neither removed nor unauthenticated.
C18_CleanupComplementsIsAuthenticated ==
    [][last'.op = "cleanup_expired_sessions" =>
        /\ \A s \in DictKeys(authenticated_sessions) :
              /\ (\E i \in 1..Len(last'.ret) : last'.ret[i] = s)
                    = ~is_authenticated(authenticated_sessions, now, s).ret
              /\ DictHas(authenticated_sessions', s)
                    = is_authenticated(authenticated_sessions, now, s).ret
              /\ now - DictGet(authenticated_sessions, s).last_activity = 900 =>
                    /\ DictHas(authenticated_sessions', s)
                    /\ is_authenticated(authenticated_sessions', now', s).ret
        /\ \A s \in DictKeys(authenticated_sessions') :
              is_authenticated(authenticated_sessions', now', s).ret
    ]_<<authenticated_sessions, now, last.op>>

C18_Witness ==
    /\ last.op = "cleanup_expired_sessions"
    /\ Len(last.ret) = 1
    /\ \E s \in SessionIds :
          /\ Present(s)
          /\ now - Record(s).last_activity = 900
          /\ IsAuthenticatedNow(s)

\* C19: authenticate_session(s, a), update_session_activity(s) and
\* end_session(s) leave the record of every other session id as it was,
\* present or absent; the account returned for a session is always the one of
\* its latest authenticate_session not followed by a removal.
C19_SessionsAreIsolated ==
    [][/\ \A s \in SessionIds :
            (/\ last'.op \in {"authenticate_session", "update_session_activity",
                              "end_session"}
             /\ last'.session_id = s) =>
                \A t \in SessionIds \ {s} :
                    /\ DictHas(authenticated_sessions', t)
                          = DictHas(authenticated_sessions, t)
                    /\ DictGet(authenticated_sessions', t)
                          = DictGet(authenticated_sessions, t)
       /\ \A t \in SessionIds :
            get_authenticated_account(authenticated_sessions', t).ret = boundAccount'[t]
    ]_vars

C19_Witness ==
    /\ last.op = "end_session"
    /\ last.ret = TRUE
    /\ \E t \in SessionIds \ {last.session_id} :
          /\ Present(t)
          /\ AccountNow(t) = boundAccount[t]
          /\ AccountNow(t) # last.prior.account_number

\* C20: with a clock that does not go back, every present record has
\* time of its latest authenticate_session <= last_activity <= now; the
\* last_activity of a record that stays in the store never decreases, and it
\* changes only in an authenticate_session or update_session_activity of that
\* session id.
C20_ActivityBetweenAuthAndNow ==
    /\ [](\A s \in SessionIds :
            Present(s) =>
                /\ 0 <= authTime[s]
                /\ authTime[s] <= Record(s).last_activity
                /\ Record(s).last_activity <= now)
    /\ [][\A s \in SessionIds :
            (DictHas(authenticated_sessions, s) /\ DictHas(authenticated_sessions', s)) =>
                LET before == DictGet(authenticated_sessions, s).last_activity
                    after  == DictGet(authenticated_sessions', s).last_activity
                IN  /\ before <= after
                    /\ before # after =>
                          /\ last'.op \in {"authenticate_session", "update_session_activity"}
                          /\ last'.session_id = s
       ]_authenticated_sessions

C20_Witness ==
    \E s \in SessionIds :
        /\ last.op = "update_session_activity"
        /\ last.session_id = s
        /\ Present(s)
        /\ 0 <= authTime[s]
        /\ authTime[s] < Record(s).last_activity
        /\ Record(s).last_activity = now
        /\ \E t \in SessionIds \ {s} :
              Present(t) /\ 0 <= authTime[t] /\ Record(t).last_activity < now

-----------------------------------------------------------------------------
(* Claims about get_cached_pin_from_conversation *)

\* a user message whose content is four characters, each one of 0-9
IsUserPin(msg) ==
    /\ msg.role = "user"
    /\ Len(msg.content) = 4
    /\ \A k \in 1..4 : msg.content[k] \in DecimalDigits

\* the payload parses as a JSON object
IsStructured(call) ==
    LET args == json_loads(call.function.arguments)
    IN  args.ok /\ args.value.type = "dict"

HasPinKey(d) == \E k \in 1..Len(d.value) : d.value[k].key = <<"p", "i", "n">>

IsEmptyValue(v) ==
    \/ v.type = "NoneType"
    \/ v.type \in {"str", "list", "dict"} /\ Len(v.value) = 0

\* a validate_pin invocation that carries a pin which is present and not empty
CarriesPin(call) ==
    /\ call.function.name = "validate_pin"
    /\ IsStructured(call)
    /\ LET d == json_loads(call.function.arguments).value
       IN  HasPinKey(d) /\ ~IsEmptyValue(dict_get(d, <<"p", "i", "n">>))

PinCalls(msg) ==
    IF msg.role = "assistant" /\ "tool_calls" \in DOMAIN msg
    THEN {j \in 1..Len(msg.tool_calls) : CarriesPin(msg.tool_calls[j])}
    ELSE {}

IsPinMessage(msg) == IsUserPin(msg) \/ PinCalls(msg) # {}

\* what a matching message yields: its content, or the pin of its first call that carries one
PinOf(msg) ==
    IF IsUserPin(msg) THEN PyStr(msg.content)
    ELSE LET j == CHOOSE j \in PinCalls(msg) : \A k \in PinCalls(msg) : j <= k
         IN  dict_get(json_loads(msg.tool_calls[j].function.arguments).value,
                      <<"p", "i", "n">>)

\* C9: the result is the value of the most recent message that matches one of
\* the two patterns (a 4-digit user message; an assistant message with a
\* validate_pin call carrying a non-empty pin), whatever older messages hold,
\* and None when no message matches.
C9_MostRecentMatchWins ==
    pin_result.status # "not called" =>
        LET matching == {i \in 1..Len(conversation) : IsPinMessage(conversation[i])}
        IN  IF matching = {} THEN pin_result = Return(PyNone)
            ELSE LET i == CHOOSE i \in matching : \A k \in matching : k <= i
                 IN  pin_result = Return(PinOf(conversation[i]))

\* a validate_pin invocation whose payload is no structured record
IsMalformed(call) == call.function.name = "validate_pin" /\ ~IsStructured(call)

WithoutMalformed(conv) ==
    [i \in 1..Len(conv) |->
        IF "tool_calls" \in DOMAIN conv[i]
        THEN [conv[i] EXCEPT !.tool_calls = SelectSeq(@, LAMBDA c : ~IsMalformed(c))]
        ELSE conv[i]]

\* C10: a validate_pin invocation whose payload does not parse as a structured
\* record (not JSON, or JSON that is no object) counts as no match: the call
\* never raises, and its result is the one it gives with those invocations
\* taken out of the conversation.
C10_MalformedPayloadSkipped ==
    pin_result.status # "not called" =>
        /\ pin_result.status = "return"
        /\ pin_result = get_cached_pin_from_conversation(WithoutMalformed(conversation))

\* the conversation without its most recent message
Older(conv) == SubSeq(conv, 1, Len(conv) - 1)

\* C14: within the most recent message, when it is an assistant message with
\* tool calls, the calls are examined in their order; calls of other functions
\* are ignored; the result is the pin of the first validate_pin call whose
\* payload parses and has a present, non-empty pin; when the message has no
\* such call, calls with a missing or empty pin included, the scan goes on and
\* the result is the one the older messages give.
C14_FirstPinCallOfMessageWins ==
    (/\ pin_result.status # "not called"
     /\ conversation # <<>>
     /\ conversation[Len(conversation)].role = "assistant"
     /\ "tool_calls" \in DOMAIN conversation[Len(conversation)])
    => LET msg == conversation[Len(conversation)]
       IN  IF PinCalls(msg) # {}
           THEN pin_result = Return(PinOf(msg))
           ELSE pin_result = get_cached_pin_from_conversation(Older(conversation))

\* C15: the most recent message, when it is a user message, is taken as the
\* PIN exactly when its content is four characters long and each of them is
\* one of 0-9; otherwise the scan goes on to the older messages.
C15_UserPinIsFourDecimalDigits ==
    (/\ pin_result.status # "not called"
     /\ conversation # <<>>
     /\ conversation[Len(conversation)].role = "user")
    => LET msg == conversation[Len(conversation)]
       IN  IF IsUserPin(msg)
           THEN pin_result = Return(PyStr(msg.content))
           ELSE pin_result = get_cached_pin_from_conversation(Older(conversation))

====
